---- MODULE Spec2Model ----
(***************************************************************************)
(* Model of paper/figures/generate_charts.py: a straight-line script that  *)
(* builds two layered charts from literal data frames and saves each as a  *)
(* PNG and a PDF.                                                          *)
(*                                                                         *)
(* Numbers with decimals are kept in fixed point: `probability` and the    *)
(* y axis of fig1 in tenths (26.8 -> 268, domain [0,100] -> [0,1000]);     *)
(* `expected`, `y_pos` and the y axis of fig2 in hundredths (0.82 -> 82,   *)
(* domain [0,1] -> [0,100]).                                               *)
(***************************************************************************)
EXTENDS Integers, Sequences, FiniteSets, TLC

VARIABLES pc, frames, globals, layers, figs, stdout, attempted, files, err,
          dirExists, locked

vars == <<pc, frames, globals, layers, figs, stdout, attempted, files, err,
          dirExists, locked>>

Range(s) == {s[i] : i \in DOMAIN s}

(***************************************************************************)
(* Literal data                                                            *)
(***************************************************************************)
QN(q, n, p, o) == [quality |-> q, noise |-> n, probability |-> p, order |-> o]

quality_noise_data ==
  << QN(50, "Low (SD=15)", 2, 1),
     QN(60, "Low (SD=15)", 28, 1),
     QN(70, "Low (SD=15)", 268, 1),
     QN(80, "Low (SD=15)", 667, 1),
     QN(90, "Low (SD=15)", 939, 1),
     QN(50, "Medium (SD=30)", 34, 2),
     QN(60, "Medium (SD=30)", 110, 2),
     QN(70, "Medium (SD=30)", 243, 2),
     QN(80, "Medium (SD=30)", 461, 2),
     QN(90, "Medium (SD=30)", 677, 2),
     QN(50, "High (SD=45)", 70, 3),
     QN(60, "High (SD=45)", 136, 3),
     QN(70, "High (SD=45)", 238, 3),
     QN(80, "High (SD=45)", 376, 3),
     QN(90, "High (SD=45)", 516, 3) >>

threshold_df == << [x |-> 70] >>

label_df == << [x |-> 70, y |-> 920, text |-> "Threshold"] >>

ST(s, e, p, q) == [strategy |-> s, expected |-> e, papers |-> p, quality |-> q]

strategy_data ==
  << ST("Two Very Good", 82, 2, 78),
     ST("Three Decent", 60, 3, 68),
     ST("Two Good", 57, 2, 72),
     ST("One Excellent", 56, 1, 85) >>

Literal(name) ==
  CASE name = "quality_noise_data" -> quality_noise_data
    [] name = "threshold_df" -> threshold_df
    [] name = "label_df" -> label_df
    [] name = "strategy_data" -> strategy_data

(***************************************************************************)
(* Encoding specs of the six layers                                        *)
(***************************************************************************)
NoSort == [kind |-> "none", values |-> <<>>, field |-> "", order |-> ""]
SortList(vs) == [kind |-> "list", values |-> vs, field |-> "", order |-> ""]
EncodingSortField(f, o) == [kind |-> "field", values |-> <<>>, field |-> f, order |-> o]

Enc(ch, f, t, dom, srt) ==
  [channel |-> ch, field |-> f, type |-> t, domain |-> dom, sort |-> srt]

threshold_line == { Enc("x", "x", "Q", <<>>, NoSort) }

threshold_label ==
  { Enc("x", "x", "Q", <<>>, NoSort),
    Enc("y", "y", "Q", <<>>, NoSort),
    Enc("text", "text", "N", <<>>, NoSort) }

quality_noise_chart_short ==
  { Enc("x", "quality", "Q", <<45, 95>>, NoSort),
    Enc("y", "probability", "Q", <<0, 1000>>, NoSort),
    Enc("color", "noise", "N", <<>>,
        SortList(<<"Low (SD=15)", "Medium (SD=30)">>)) }

quality_noise_chart ==
  { Enc("x", "quality", "Q", <<45, 95>>, NoSort),
    Enc("y", "probability", "Q", <<0, 1000>>, NoSort),
    Enc("color", "noise", "N", <<>>,
        SortList(<<"Low (SD=15)", "Medium (SD=30)", "High (SD=45)">>)) }

bars ==
  { Enc("x", "strategy", "N", <<>>, EncodingSortField("expected", "descending")),
    Enc("y", "expected", "Q", <<0, 100>>, NoSort) }

text_labels ==
  { Enc("x", "strategy", "N", <<>>, EncodingSortField("expected", "descending")),
    Enc("y", "expected", "Q", <<>>, NoSort),
    Enc("text", "expected", "Q", <<>>, NoSort) }

info_labels_typo ==
  { Enc("x", "strategy", "N", <<>>, EncodingSortField("expected", "descending")),
    Enc("y", "y_pos", "Q", <<>>, NoSort),
    Enc("text", "label", "N", <<>>, NoSort) }

info_labels ==
  { Enc("x", "strategy", "N", <<>>, EncodingSortField("expected", "descending")),
    Enc("y", "y_pos", "Q", <<>>, NoSort),
    Enc("text", "info", "N", <<>>, NoSort) }

Channels(l) ==
  CASE l = "threshold_line" -> threshold_line
    [] l = "threshold_label" -> threshold_label
    [] l = "quality_noise_chart" -> quality_noise_chart
    [] l = "bars" -> bars
    [] l = "text_labels" -> text_labels
    [] l = "info_labels" -> info_labels

(***************************************************************************)
(* The script, one entry per evaluation step, in Python evaluation order   *)
(***************************************************************************)
I(op, line, tgt, src, arg) ==
  [op |-> op, line |-> line, tgt |-> tgt, src |-> src, arg |-> arg]

Program ==
  << I("frame", 11, "quality_noise_data", "", ""),
     I("frame", 30, "threshold_df", "", ""),
     I("chart", 30, "threshold_line", "threshold_df", ""),
     I("mark", 30, "threshold_line", "", "rule"),
     I("channels", 34, "threshold_line", "", ""),
     I("encode", 34, "threshold_line", "", ""),
     I("frame", 36, "label_df", "", ""),
     I("chart", 36, "threshold_label", "label_df", ""),
     I("mark", 36, "threshold_label", "", "text"),
     I("channels", 41, "threshold_label", "", ""),
     I("encode", 41, "threshold_label", "", ""),
     I("chart", 43, "quality_noise_chart", "quality_noise_data", ""),
     I("mark", 43, "quality_noise_chart", "", "line"),
     I("channels", 47, "quality_noise_chart", "", ""),
     I("encode", 46, "quality_noise_chart", "", ""),
     I("properties", 57, "quality_noise_chart", "", "width,height,title"),
     I("add", 66, "fig1", "quality_noise_chart", "threshold_line"),
     I("add", 66, "fig1", "", "threshold_label"),
     I("configure", 66, "fig1", "", "configure"),
     I("configure", 68, "fig1", "", "configure_axis"),
     I("configure", 71, "fig1", "", "configure_legend"),
     I("assign", 66, "fig1", "", ""),
     I("frame", 77, "strategy_data", "", ""),
     I("chart", 84, "bars", "strategy_data", ""),
     I("mark", 84, "bars", "", "bar"),
     I("channels", 89, "bars", "", ""),
     I("encode", 88, "bars", "", ""),
     I("chart", 98, "text_labels", "strategy_data", ""),
     I("mark", 98, "text_labels", "", "text"),
     I("channels", 103, "text_labels", "", ""),
     I("encode", 102, "text_labels", "", ""),
     I("copy", 109, "info_data", "strategy_data", ""),
     I("setcol", 110, "info_data", "", "info"),
     I("setcol", 111, "info_data", "", "y_pos"),
     I("chart", 113, "info_labels", "info_data", ""),
     I("mark", 113, "info_labels", "", "text"),
     I("channels", 117, "info_labels", "", ""),
     I("encode", 116, "info_labels", "", ""),
     I("add", 122, "fig2", "bars", "text_labels"),
     I("add", 122, "fig2", "", "info_labels"),
     I("properties", 122, "fig2", "", "width,height,title"),
     I("configure", 129, "fig2", "", "configure"),
     I("configure", 131, "fig2", "", "configure_axis"),
     I("configure", 134, "fig2", "", "configure_view"),
     I("assign", 122, "fig2", "", ""),
     I("print", 139, "", "", "Saving Quality x Noise chart..."),
     I("save", 140, "", "fig1", "paper/figures/quality-x-noise.png"),
     I("save", 141, "", "fig1", "paper/figures/quality-x-noise.pdf"),
     I("print", 143, "", "", "Saving Strategy Comparison chart..."),
     I("save", 144, "", "fig2", "paper/figures/strategy-comparison.png"),
     I("save", 145, "", "fig2", "paper/figures/strategy-comparison.pdf"),
     I("print", 147, "", "", "Done! Charts saved to paper/figures/") >>

FrameNames == {"quality_noise_data", "threshold_df", "label_df",
               "strategy_data", "info_data"}
LayerNames == {"threshold_line", "threshold_label", "quality_noise_chart",
               "bars", "text_labels", "info_labels"}
FigNames == {"fig1", "fig2"}
Paths == {Program[i].arg : i \in {j \in DOMAIN Program : Program[j].op = "save"}}

Halted == Len(Program) + 1
Aborted == Len(Program) + 2
Running == pc \in DOMAIN Program
Cur == Program[pc]

NoError == [type |-> "none", filename |-> "", cause |-> "none"]
NoLayer == [data |-> "none", mark |-> "none", channels |-> {}, encoding |-> {},
            props |-> ""]
NoFig == [layer |-> <<>>, props |-> <<>>, bound |-> FALSE]

(***************************************************************************)
(* Helpers of the operations                                               *)
(***************************************************************************)
Digit(d) ==
  CASE d = 0 -> "0" [] d = 1 -> "1" [] d = 2 -> "2" [] d = 3 -> "3"
    [] d = 4 -> "4" [] d = 5 -> "5" [] d = 6 -> "6" [] d = 7 -> "7"
    [] d = 8 -> "8" [] d = 9 -> "9"

RECURSIVE Str(_)
Str(n) == IF n < 10 THEN Digit(n) ELSE Str(n \div 10) \o Digit(n % 10)

InfoLabelPlural(r) ==
  Str(r.papers) \o " papers, Q=" \o Str(r.quality)

\* f"{r['papers']} paper{'s' if r['papers']>1 else ''}, Q={r['quality']}"
InfoLabel(r) ==
  Str(r.papers) \o " paper" \o (IF r.papers > 1 THEN "s" ELSE "") \o ", Q="
    \o Str(r.quality)

y_pos_above == 100 + 8

\* the scalar assigned to the y_pos column (0.08 in hundredths)
y_pos == 8

\* the value assigned to column `col`, one entry per row
ColumnValues(rows, col) ==
  IF col = "info" THEN [i \in DOMAIN rows |-> InfoLabel(rows[i])]
  ELSE [i \in DOMAIN rows |-> y_pos]

\* df[col] = vals : in-place column assignment
SetColumn(rows, col, vals) ==
  [i \in DOMAIN rows |->
     [f \in (DOMAIN rows[i]) \cup {col} |->
        IF f = col THEN vals[i] ELSE rows[i][f]]]

CopyAlias(srcId, freshId) == srcId

\* DataFrame.copy(): the object the result refers to (a fresh one)
CopyRef(srcId, freshId) == freshId

LayerAddFront(ls, l) == <<l>> \o ls

\* LayerChart + chart
LayerAdd(ls, l) == Append(ls, l)

EncodedFresh(L) == [NoLayer EXCEPT !.encoding = L.channels]

\* Chart.encode(...): the chart with the evaluated channels attached
Encoded(L) == [L EXCEPT !.encoding = L.channels]

Swallowed(p) == p + 1

\* an exception raised at top level of the script: nothing catches it
Uncaught(p) == Aborted

SaveErrorNoPath(fp, dirOk) ==
  [type |-> IF dirOk THEN "PermissionError" ELSE "FileNotFoundError",
   filename |-> "", cause |-> "none"]

\* the failure open(fp, "wb") raises inside save; the script wraps nothing
SaveError(fp, dirOk) ==
  [type |-> IF dirOk THEN "PermissionError" ELSE "FileNotFoundError",
   filename |-> fp, cause |-> "none"]

(***************************************************************************)
(* Initial state: nothing defined; the file system is the environment      *)
(***************************************************************************)
Init ==
  /\ pc = 1
  /\ frames = [n \in FrameNames |-> <<>>]
  /\ globals = [n \in FrameNames |-> "undef"]
  /\ layers = [l \in LayerNames |-> NoLayer]
  /\ figs = [f \in FigNames |-> NoFig]
  /\ stdout = <<>>
  /\ attempted = <<>>
  /\ files = {}
  /\ err = NoError
  /\ dirExists \in BOOLEAN
  /\ locked \in SUBSET Paths

Env == <<dirExists, locked>>
IO == <<stdout, attempted, files, err>>

(***************************************************************************)
(* Operations                                                              *)
(***************************************************************************)
\* pd.DataFrame(<literal>)
DataFrame ==
  /\ Running /\ Cur.op = "frame"
  /\ frames' = [frames EXCEPT ![Cur.tgt] = Literal(Cur.tgt)]
  /\ globals' = [globals EXCEPT ![Cur.tgt] = Cur.tgt]
  /\ pc' = pc + 1
  /\ UNCHANGED <<layers, figs, IO, Env>>

\* alt.Chart(df): the chart keeps a reference to the frame
Chart ==
  /\ Running /\ Cur.op = "chart"
  /\ layers' = [layers EXCEPT ![Cur.tgt] = [NoLayer EXCEPT !.data = globals[Cur.src]]]
  /\ pc' = pc + 1
  /\ UNCHANGED <<frames, globals, figs, IO, Env>>

\* .mark_rule / .mark_text / .mark_line / .mark_bar
Mark ==
  /\ Running /\ Cur.op = "mark"
  /\ layers' = [layers EXCEPT ![Cur.tgt].mark = Cur.arg]
  /\ pc' = pc + 1
  /\ UNCHANGED <<frames, globals, figs, IO, Env>>

\* evaluation of the alt.X / alt.Y / alt.Color / alt.Text arguments
ChannelArgs ==
  /\ Running /\ Cur.op = "channels"
  /\ layers' = [layers EXCEPT ![Cur.tgt].channels = Channels(Cur.tgt)]
  /\ pc' = pc + 1
  /\ UNCHANGED <<frames, globals, figs, IO, Env>>

\* .encode(...)
Encode ==
  /\ Running /\ Cur.op = "encode"
  /\ layers' = [layers EXCEPT ![Cur.tgt] = Encoded(layers[Cur.tgt])]
  /\ pc' = pc + 1
  /\ UNCHANGED <<frames, globals, figs, IO, Env>>

\* .properties(width=, height=, title=) on a chart or on a layered chart
Properties ==
  /\ Running /\ Cur.op = "properties"
  /\ IF Cur.tgt \in LayerNames
       THEN /\ layers' = [layers EXCEPT ![Cur.tgt].props = Cur.arg]
            /\ UNCHANGED figs
       ELSE /\ figs' = [figs EXCEPT ![Cur.tgt].props = Append(@, "properties")]
            /\ UNCHANGED layers
  /\ pc' = pc + 1
  /\ UNCHANGED <<frames, globals, IO, Env>>

\* a + b : overlay
Add ==
  /\ Running /\ Cur.op = "add"
  /\ figs' = [figs EXCEPT ![Cur.tgt].layer =
                LayerAdd(IF Cur.src # "" THEN <<Cur.src>> ELSE @, Cur.arg)]
  /\ pc' = pc + 1
  /\ UNCHANGED <<frames, globals, layers, IO, Env>>

\* .configure / .configure_axis / .configure_legend / .configure_view
Configure ==
  /\ Running /\ Cur.op = "configure"
  /\ figs' = [figs EXCEPT ![Cur.tgt].props = Append(@, Cur.arg)]
  /\ pc' = pc + 1
  /\ UNCHANGED <<frames, globals, layers, IO, Env>>

\* fig1 = ... / fig2 = ...
Assign ==
  /\ Running /\ Cur.op = "assign"
  /\ figs' = [figs EXCEPT ![Cur.tgt].bound = TRUE]
  /\ pc' = pc + 1
  /\ UNCHANGED <<frames, globals, layers, IO, Env>>

\* info_data = strategy_data.copy()
Copy ==
  /\ Running /\ Cur.op = "copy"
  /\ LET id == CopyRef(globals[Cur.src], Cur.tgt) IN
       /\ globals' = [globals EXCEPT ![Cur.tgt] = id]
       /\ frames' = [frames EXCEPT ![id] = frames[globals[Cur.src]]]
  /\ pc' = pc + 1
  /\ UNCHANGED <<layers, figs, IO, Env>>

\* info_data['info'] = info_data.apply(...) ; info_data['y_pos'] = 0.08
ColumnAssign ==
  /\ Running /\ Cur.op = "setcol"
  /\ LET id == globals[Cur.tgt] IN
       frames' = [frames EXCEPT ![id] =
                    SetColumn(@, Cur.arg, ColumnValues(@, Cur.arg))]
  /\ pc' = pc + 1
  /\ UNCHANGED <<globals, layers, figs, IO, Env>>

\* print(...)
PrintMsg ==
  /\ Running /\ Cur.op = "print"
  /\ stdout' = Append(stdout, Cur.arg)
  /\ pc' = pc + 1
  /\ UNCHANGED <<frames, globals, layers, figs, attempted, files, err, Env>>

Writable(fp) == dirExists /\ fp \notin locked

\* fig.save(fp) that succeeds
SaveOk ==
  /\ Running /\ Cur.op = "save"
  /\ Writable(Cur.arg)
  /\ attempted' = Append(attempted, Cur.arg)
  /\ files' = files \cup {Cur.arg}
  /\ pc' = pc + 1
  /\ UNCHANGED <<frames, globals, layers, figs, stdout, err, Env>>

\* fig.save(fp) whose write fails: the exception propagates
SaveFail ==
  /\ Running /\ Cur.op = "save"
  /\ ~Writable(Cur.arg)
  /\ attempted' = Append(attempted, Cur.arg)
  /\ err' = SaveError(Cur.arg, dirExists)
  /\ pc' = Uncaught(pc)
  /\ UNCHANGED <<frames, globals, layers, figs, stdout, files, Env>>

Next ==
  \/ DataFrame \/ Chart \/ Mark \/ ChannelArgs \/ Encode \/ Properties
  \/ Add \/ Configure \/ Assign \/ Copy \/ ColumnAssign \/ PrintMsg
  \/ SaveOk \/ SaveFail

Spec == Init /\ [][Next]_vars

TypeOK ==
  /\ pc \in 1..Aborted
  /\ files \subseteq Paths

(***************************************************************************)
(* What the renderer derives from a composed figure                        *)
(***************************************************************************)
RECURSIVE DistinctSeq(_)
DistinctSeq(s) ==
  IF s = <<>> THEN <<>>
  ELSE LET h == s[1]
           NotHead(x) == x # h
       IN <<h>> \o DistinctSeq(SelectSeq(Tail(s), NotHead))

Min(S) == CHOOSE m \in S : \A k \in S : m <= k

BeforeAscending(a, b, order) == a < b

\* a sorts before b under the given order of an EncodingSortField
Before(a, b, order) == IF order = "descending" THEN a > b ELSE a < b

RECURSIVE SortCats(_, _, _)
SortCats(cats, key, order) ==
  IF cats = <<>> THEN <<>>
  ELSE LET Best(i) == \A j \in DOMAIN cats :
                        ~Before(key[cats[j]], key[cats[i]], order)
           i == CHOOSE k \in DOMAIN cats :
                  Best(k) /\ \A j \in 1..(k - 1) : ~Best(j)
       IN <<cats[i]>> \o
          SortCats([k \in 1..(Len(cats) - 1) |->
                      IF k < i THEN cats[k] ELSE cats[k + 1]], key, order)

HasChannel(l, ch) == \E e \in layers[l].encoding : e.channel = ch
EncOf(l, ch) == CHOOSE e \in layers[l].encoding : e.channel = ch
Rows(l) == frames[layers[l].data]

\* (category, sort key) of every row of a layer, for a discrete channel
Pairs(l, ch) ==
  LET e == EncOf(l, ch) IN
    [i \in DOMAIN Rows(l) |->
       [cat |-> Rows(l)[i][e.field],
        key |-> IF e.sort.kind = "field" THEN Rows(l)[i][e.sort.field] ELSE 0]]

RECURSIVE AllPairs(_, _)
AllPairs(ls, ch) ==
  IF ls = <<>> THEN <<>>
  ELSE (IF HasChannel(ls[1], ch) THEN Pairs(ls[1], ch) ELSE <<>>)
         \o AllPairs(Tail(ls), ch)

\* the sorts the layers of a figure declare for a channel
Sorts(f, ch) ==
  {EncOf(l, ch).sort : l \in {k \in Range(figs[f].layer) : HasChannel(k, ch)}}

\* domain of the scale the layers of a figure share for a discrete channel:
\* an explicit list orders the values present in the data (others follow in
\* data order); a sort field orders the categories by the minimum of the field
ScaleDomain(f, ch) ==
  LET ps == AllPairs(figs[f].layer, ch)
      cats == DistinctSeq([i \in DOMAIN ps |-> ps[i].cat])
      srt == CHOOSE s \in Sorts(f, ch) : TRUE
      key == [c \in Range(cats) |->
                Min({ps[i].key : i \in {j \in DOMAIN ps : ps[j].cat = c}})]
      Listed(c) == c \in Range(srt.values)
      Present(c) == c \in Range(cats)
      Unlisted(c) == ~Listed(c)
  IN CASE srt.kind = "list" ->
            SelectSeq(srt.values, Present) \o SelectSeq(cats, Unlisted)
       [] srt.kind = "field" -> SortCats(cats, key, srt.order)

\* the [min, max] a layer of the figure declares for a positional channel
AxisDomain(f, ch) ==
  LET ds == {e.domain : e \in {d \in UNION {layers[l].encoding :
                                     l \in Range(figs[f].layer)} :
                                 d.channel = ch /\ d.domain # <<>>}}
  IN CHOOSE d \in ds : TRUE

Complete(l) == layers[l].encoding # {}
Composed(f) == figs[f].bound

(***************************************************************************)
(* C1: the x categories of the bar layer, sorted descending by `expected`, *)
(* come out as Two Very Good, Three Decent, Two Good, One Excellent, and   *)
(* the value-label and info-label layers declare the same sort and hold    *)
(* the same strategies, so each label falls on the bar of its strategy.    *)
(***************************************************************************)
C1_BarOrder ==
  Composed("fig2") =>
    /\ Len(Rows("bars")) = 4
    /\ \A l \in {"text_labels", "info_labels"} :
         /\ EncOf(l, "x").sort = EncOf("bars", "x").sort
         /\ EncOf(l, "x").field = EncOf("bars", "x").field
         /\ {r.strategy : r \in Range(Rows(l))}
              = {r.strategy : r \in Range(Rows("bars"))}
    /\ Cardinality(Sorts("fig2", "x")) = 1
    /\ SortCats(DistinctSeq([i \in DOMAIN Rows("bars") |-> Rows("bars")[i].strategy]),
                [c \in {r.strategy : r \in Range(Rows("bars"))} |->
                   Min({r.expected : r \in {q \in Range(Rows("bars")) : q.strategy = c}})],
                EncOf("bars", "x").sort.order)
         = <<"Two Very Good", "Three Decent", "Two Good", "One Excellent">>
    /\ ScaleDomain("fig2", "x")
         = <<"Two Very Good", "Three Decent", "Two Good", "One Excellent">>

C1_Witness ==
  /\ Composed("fig2")
  /\ figs["fig2"].layer = <<"bars", "text_labels", "info_labels">>
  /\ ScaleDomain("fig2", "x")[4] = "One Excellent"

(***************************************************************************)
(* C2: the explicit sort list of the color channel of the line layer holds *)
(* every distinct noise value of the 15 records exactly once and nothing   *)
(* else, and the legend lists the three categories as Low, Medium, High.   *)
(***************************************************************************)
C2_ColorSortBijection ==
  Complete("quality_noise_chart") =>
    LET L == EncOf("quality_noise_chart", "color").sort.values
        D == {r.noise : r \in Range(Rows("quality_noise_chart"))}
    IN /\ Len(Rows("quality_noise_chart")) = 15
       /\ EncOf("quality_noise_chart", "color").field = "noise"
       /\ Range(L) = D
       /\ Cardinality(Range(L)) = Len(L)
       /\ Len(L) = 3
       /\ Composed("fig1") =>
            ScaleDomain("fig1", "color")
              = <<"Low (SD=15)", "Medium (SD=30)", "High (SD=45)">>

C2_Witness ==
  /\ Composed("fig1")
  /\ Complete("quality_noise_chart")
  /\ Len(ScaleDomain("fig1", "color")) = 3

(***************************************************************************)
(* C3: every field an encoding of a layer names, the field of a sort-by-   *)
(* field ordering included, is a column of every record of the data frame  *)
(* the layer is bound to.                                                  *)
(***************************************************************************)
C3_SchemaInvariant ==
  \A l \in LayerNames :
    Complete(l) =>
      /\ Rows(l) # <<>>
      /\ \A e \in layers[l].encoding : \A r \in Range(Rows(l)) :
           /\ e.field \in DOMAIN r
           /\ e.sort.kind = "field" => e.sort.field \in DOMAIN r

C3_Witness ==
  /\ \A l \in LayerNames : Complete(l)
  /\ "info" \in DOMAIN Rows("info_labels")[1]

(***************************************************************************)
(* C4: a figure holds its layers in the order they were overlaid, and the  *)
(* properties and configure steps that follow, up to the saves, leave that *)
(* order alone.                                                            *)
(***************************************************************************)
C4_LayerOrder ==
  /\ Len(figs["fig1"].layer) = 3 =>
       figs["fig1"].layer = <<"quality_noise_chart", "threshold_line", "threshold_label">>
  /\ Len(figs["fig2"].layer) = 3 =>
       figs["fig2"].layer = <<"bars", "text_labels", "info_labels">>
  /\ \A f \in FigNames :
       (figs[f].props # <<>> \/ Composed(f)) => Len(figs[f].layer) = 3
  /\ \A f \in FigNames : Len(figs[f].layer) <= 3

C4_Witness ==
  /\ pc = Halted
  /\ figs["fig1"].props = <<"configure", "configure_axis", "configure_legend">>
  /\ figs["fig2"].props = <<"properties", "configure", "configure_axis", "configure_view">>
  /\ figs["fig1"].layer[1] = "quality_noise_chart"
  /\ figs["fig2"].layer[3] = "info_labels"

(***************************************************************************)
(* C10: every value bound to a quantitative x or y channel of a layer lies *)
(* inside the domain declared for that axis of the layer's figure.         *)
(***************************************************************************)
C10_ValuesInDomain ==
  /\ \A f \in FigNames :
       Composed(f) =>
         \A l \in Range(figs[f].layer) : \A e \in layers[l].encoding :
           (e.channel \in {"x", "y"} /\ e.type = "Q") =>
             \A r \in Range(Rows(l)) :
               /\ AxisDomain(f, e.channel)[1] <= r[e.field]
               /\ r[e.field] <= AxisDomain(f, e.channel)[2]
  /\ Composed("fig1") =>
       /\ AxisDomain("fig1", "x") = <<45, 95>>
       /\ AxisDomain("fig1", "y") = <<0, 1000>>
  /\ Composed("fig2") => AxisDomain("fig2", "y") = <<0, 100>>

C10_Witness ==
  /\ Composed("fig1") /\ Composed("fig2")
  /\ Rows("threshold_label")[1].y = 920
  /\ Rows("info_labels")[1].y_pos = 8
  /\ Rows("quality_noise_chart")[5].probability = 939

(***************************************************************************)
(* Build phases                                                            *)
(***************************************************************************)
LayerPhase(l) ==
  IF layers[l].data = "none" THEN "NONE"
  ELSE IF layers[l].channels = {} THEN "DATA_BOUND"
  ELSE IF layers[l].encoding = {} THEN "ENCODED"
  ELSE "LAYERED"

\* the layers the script overlays into a figure, the paths it saves it to
FigLayers(f) ==
  {Program[i].arg : i \in {j \in DOMAIN Program :
                             Program[j].op = "add" /\ Program[j].tgt = f}}
    \cup {Program[i].src : i \in {j \in DOMAIN Program :
                             Program[j].op = "add" /\ Program[j].tgt = f
                               /\ Program[j].src # ""}}
FigPaths(f) ==
  {Program[i].arg : i \in {j \in DOMAIN Program :
                             Program[j].op = "save" /\ Program[j].src = f}}

\* the phase of a figure: that of the layer being built, if any
FigPhase(f) ==
  IF FigPaths(f) \subseteq files THEN "EXPORTED"
  ELSE IF figs[f].layer # <<>> THEN "COMPOSED"
  ELSE IF \E l \in FigLayers(f) : LayerPhase(l) = "ENCODED" THEN "ENCODED"
  ELSE IF \E l \in FigLayers(f) : LayerPhase(l) = "DATA_BOUND" THEN "DATA_BOUND"
  ELSE IF \E l \in FigLayers(f) : LayerPhase(l) = "LAYERED" THEN "LAYERED"
  ELSE "NONE"

Rank(ph) ==
  CASE ph = "NONE" -> 0 [] ph = "DATA_BOUND" -> 1 [] ph = "ENCODED" -> 2
    [] ph = "LAYERED" -> 3 [] ph = "COMPOSED" -> 4 [] ph = "EXPORTED" -> 5

(***************************************************************************)
(* C5 as stated: each figure moves DATA_BOUND, ENCODED, LAYERED, COMPOSED, *)
(* EXPORTED strictly forward: no data is bound and no layer is built for a *)
(* figure once one of its layers is complete, and no file of a figure is   *)
(* saved before the figure is composed.                                    *)
(***************************************************************************)
C5_FigureLinear ==
  [][ /\ \A f \in FigNames : Rank(FigPhase(f)') >= Rank(FigPhase(f))
      /\ \A f \in FigNames :
           (FigPaths(f) \cap Range(attempted')) # {} => Composed(f) ]_vars

(***************************************************************************)
(* C5 amended: each of the six layers moves DATA_BOUND, ENCODED, LAYERED   *)
(* one phase at a time and never back; a figure is overlaid only when all  *)
(* three of its layers are complete, so nothing is bound or built for it   *)
(* afterwards; and no file of a figure is saved before it is composed.     *)
(***************************************************************************)
C5_LayerLinear ==
  /\ [](\A f \in FigNames :
          /\ figs[f].layer # <<>> =>
               \A l \in FigLayers(f) : LayerPhase(l) = "LAYERED"
          /\ Composed(f) => Range(figs[f].layer) = FigLayers(f)
          /\ (FigPaths(f) \cap Range(attempted)) # {} => Composed(f)
          /\ FigPhase(f) = "EXPORTED" => Composed(f))
  /\ [][\A l \in LayerNames :
          /\ Rank(LayerPhase(l)') >= Rank(LayerPhase(l))
          /\ Rank(LayerPhase(l)') <= Rank(LayerPhase(l)) + 1]_vars

C5_Witness ==
  /\ LayerPhase("threshold_line") = "LAYERED"
  /\ LayerPhase("threshold_label") = "DATA_BOUND"
  /\ FigPhase("fig1") = "DATA_BOUND"

(***************************************************************************)
(* C6: the saves are attempted in the order quality-x-noise PNG, PDF,      *)
(* strategy-comparison PNG, PDF; a failed save is the last one attempted,  *)
(* is not retried, and "Done!" is printed only after all four succeeded.   *)
(***************************************************************************)
C6_AbortOnFirstFailure ==
  LET SaveOrder == << "paper/figures/quality-x-noise.png",
                      "paper/figures/quality-x-noise.pdf",
                      "paper/figures/strategy-comparison.png",
                      "paper/figures/strategy-comparison.pdf" >>
      Done == "Done! Charts saved to paper/figures/" \in Range(stdout)
      n == Len(attempted)
  IN /\ n <= 4
     /\ attempted = SubSeq(SaveOrder, 1, n)
     /\ err.type = "none" => files = Range(attempted)
     /\ err.type # "none" =>
          /\ n > 0
          /\ err.filename = attempted[n]
          /\ files = Range(SubSeq(attempted, 1, n - 1))
          /\ ~Done
          /\ ~Running
     /\ Done => /\ files = Range(SaveOrder)
                /\ attempted = SaveOrder
                /\ err.type = "none"
     /\ pc = Halted => Done

C6_Witness ==
  /\ err.type # "none"
  /\ Len(attempted) = 3
  /\ Cardinality(files) = 2
  /\ ~Running

C8_NoMutation ==
  [][ /\ \A id \in FrameNames :
           (/\ frames[id] # <<>>
            /\ \/ \E i \in DOMAIN Program :
                    Program[i].op = "frame" /\ Program[i].tgt = id
               \/ \E l \in LayerNames : layers[l].data = id)
             => frames'[id] = frames[id]
      /\ \A l \in LayerNames :
           /\ Complete(l) =>
                /\ layers'[l].data = layers[l].data
                /\ layers'[l].mark = layers[l].mark
                /\ layers'[l].encoding = layers[l].encoding
           /\ (\E f \in FigNames : l \in Range(figs[f].layer)) =>
                layers'[l] = layers[l]
      /\ \A f \in FigNames : Composed(f) => figs'[f] = figs[f]
      /\ \A g \in FrameNames : globals[g] # "undef" => globals'[g] = globals[g]
    ]_vars

C8_Witness ==
  /\ globals["info_data"] = "info_data"
  /\ "y_pos" \in DOMAIN frames["info_data"][1]
  /\ frames["strategy_data"] = strategy_data
  /\ layers["bars"].data = "strategy_data"
  /\ layers["text_labels"].data = "strategy_data"
  /\ Composed("fig1")

(***************************************************************************)
(* C9: the info column holds, row for row, "<papers> paper", an "s" only   *)
(* when papers > 1, then ", Q=<quality>": one label per strategy record,   *)
(* in the order of the records, the same label for the same record.        *)
(***************************************************************************)
C9_InfoLabels ==
  LET rows == frames[globals["info_data"]] IN
    (globals["info_data"] # "undef" /\ "info" \in DOMAIN rows[1]) =>
      /\ Len(rows) = Len(strategy_data)
      /\ \A i \in DOMAIN rows :
           /\ rows[i].strategy = strategy_data[i].strategy
           /\ rows[i].papers = strategy_data[i].papers
           /\ rows[i].quality = strategy_data[i].quality
      /\ [i \in DOMAIN rows |-> rows[i].info]
           = <<"2 papers, Q=78", "3 papers, Q=68", "2 papers, Q=72", "1 paper, Q=85">>
      /\ \A i \in DOMAIN rows : rows[i].papers = 1 <=> i = 4
      /\ \A i, j \in DOMAIN rows :
           (rows[i].papers = rows[j].papers /\ rows[i].quality = rows[j].quality)
             => rows[i].info = rows[j].info

C9_Witness ==
  /\ globals["info_data"] = "info_data"
  /\ Len(frames["info_data"]) = 4
  /\ "info" \in DOMAIN frames["info_data"][4]
  /\ frames["info_data"][4].papers = 1
  /\ frames["info_data"][4].info = "1 paper, Q=85"
====
